---- MODULE Spec2Model ----
(***************************************************************************)
(* Order-creation workflow of the OctoCAT Supply API                       *)
(* (routes/order.ts, router.post('/')) over the one shared SQLite          *)
(* connection.  Every request is an async handler; it can be suspended at  *)
(* each await, so each await of the handler is one step of the model.      *)
(*                                                                         *)
(* Search suggestions (routes/search.ts, router.get('/suggestions') and    *)
(* SearchRepository): validation, the three ranked per-entity searches     *)
(* and their interleaving.  Text is modelled character by character, with  *)
(* JavaScript's toLowerCase and SQLite's LOWER, LIKE and ORDER BY.         *)
(***************************************************************************)
EXTENDS Integers, Sequences, FiniteSets, TLC

(* ------------------------------ bounds --------------------------------- *)
NumReqs == 2            \* POST /api/orders requests in flight (Spec)
NumRacers == 3          \* POST /api/orders requests in flight (the races)
MaxItems == 2           \* longest items array of a request
MaxFaults == 1          \* statements the store rejects (constraint, I/O)
MaxQueryLen == 3        \* longest q parameter of a search request

(* ------------------------------ inputs --------------------------------- *)
ExistingIds == {5}                  \* product rows seeded in the store
MissingIds == {888, 999}            \* ids with no product row
ProductIds == ExistingIds \cup MissingIds
Prices == {2999, 3999}              \* in cents
Quantities == {0, 1}
BranchIds == {0, 1}                 \* 0: branchId absent or falsy

Item == [productId : ProductIds, quantity : Quantities]
ItemSeqs == UNION {[1 .. n -> Item] : n \in 0 .. MaxItems}

\* req.body: itemsKind tells what the items field holds
\* ("missing": absent or falsy, "notArray": a truthy non-array, "array")
Bodies ==
  {[branchId |-> b, itemsKind |-> "array", items |-> s] :
      b \in BranchIds, s \in ItemSeqs}
  \cup {[branchId |-> b, itemsKind |-> k, items |-> << >>] :
      b \in BranchIds, k \in {"missing", "notArray"}}

\* carts that pass validation: the seeded product, a quantity of 1
Carts ==
  {[branchId |-> 1, itemsKind |-> "array", items |-> s] :
      s \in UNION {[1 .. n -> [productId : ExistingIds, quantity : {1}]] :
                      n \in 1 .. MaxItems}}

NoBody == [branchId |-> 0, itemsKind |-> "missing", items |-> << >>]

VARIABLES
  products,        \* products table: product id -> price
  orders,          \* orders table as the connection sees it
  order_details,   \* order_details table as the connection sees it
  txn,             \* the connection's open transaction (its rollback journal)
  faults,          \* statements rejected so far
  pc,              \* per request: the await it is suspended at
  cartRequest,     \* per request: req.body
  productMap,      \* per request: productId -> Product resolved in validation
  k,               \* per request: index of the item the current loop is at
  orderId,         \* per request: createdOrder.orderId
  lastID,          \* per request: result.lastID of its latest INSERT
  caught,          \* per request: the error its catch block caught
  orderDetails,    \* per request: the details collected for the response
  res,             \* per request: the response sent
  lookups,         \* per request: history of the product rows it looked up
  stmts            \* per request: history of its BEGIN, COMMIT and ROLLBACK

\* GET /api/search/suggestions (routes/search.ts, SearchRepository)
VARIABLES
  tables,          \* name, sku and order_date columns of the searched tables
  query,           \* req.query: the raw q, entity and limit parameters
  spc,             \* the await the search handler is suspended at
  limit,           \* the handler's parsed limit
  pending,         \* per-entity searches issued and not yet ended
  found,           \* per entity: the suggestions its search returned
  issued,          \* history: the searches the repository ran, with limits
  settled,         \* history: the entities whose search returned, in order
  failed,          \* history: the entities whose search was rejected
  sres             \* the response sent

searchVars ==
  <<tables, query, spc, limit, pending, found, issued, settled, failed,
    sres>>

vars == <<products, orders, order_details, txn, faults, pc, cartRequest,
          productMap, k, orderId, lastID, caught, orderDetails, res,
          lookups, stmts, searchVars>>

orderVars == <<products, orders, order_details, txn, faults, pc, cartRequest,
               productMap, k, orderId, lastID, caught, orderDetails, res,
               lookups, stmts>>

dbVars == <<products, orders, order_details, txn>>
reqLocals == <<cartRequest, productMap, k, orderId, lastID, caught,
               orderDetails, lookups>>

Reqs == DOMAIN pc

(* ------------------------------ helpers -------------------------------- *)
Max(S) == IF S = {} THEN 0 ELSE CHOOSE m \in S : \A x \in S : x <= m

NoTxn == [active |-> FALSE, by |-> 0, products |-> << >>, orders |-> {},
          order_details |-> {}]

NoRes == [status |-> 0, error |-> "", productId |-> 0, orderId |-> 0,
          branchId |-> 0, orderStatus |-> "", details |-> << >>]

\* !cartRequest.branchId
BranchIdMissing(c) == c.branchId = 0

\* (variant: the length test dropped)
ItemsInvalidNoLength(c) ==
  \/ c.itemsKind = "missing"
  \/ c.itemsKind # "array"

\* !items || !Array.isArray(items) || items.length === 0
ItemsInvalid(c) ==
  \/ c.itemsKind = "missing"
  \/ c.itemsKind # "array"
  \/ Len(c.items) = 0

\* (variant: the items check ahead of the branchId check)
ValidateItemsFirst(c) ==
  IF ItemsInvalid(c) THEN "items array must not be empty"
  ELSE IF BranchIdMissing(c) THEN "branchId is required"
  ELSE "ok"

\* the two synchronous checks at the head of the handler, in source order
Validate(c) ==
  IF BranchIdMissing(c) THEN "branchId is required"
  ELSE IF ItemsInvalid(c) THEN "items array must not be empty"
  ELSE "ok"

\* errorHandler: a ValidationError becomes 400 {error: {code, message}}
ValidationResponse(msg) ==
  [NoRes EXCEPT !.status = 400, !.error = msg]

\* any other error becomes 500
InternalError(msg) == [NoRes EXCEPT !.status = 500, !.error = msg]

\* productsRepo.findById: the Product row, or null
FindProduct(id) ==
  IF id \in DOMAIN products
  THEN [found |-> TRUE, productId |-> id, price |-> products[id]]
  ELSE [found |-> FALSE, productId |-> id, price |-> 0]

\* history: what the products table held for id when it was looked up
StoreRow(id) ==
  [productId |-> id,
   exists |-> id \in DOMAIN products,
   price |-> IF id \in DOMAIN products THEN products[id] ELSE 0]

\* rowid of the next INSERT: one more than the largest id in the table
NextOrderId == Max({o.orderId : o \in orders}) + 1
NextDetailId == Max({d.orderDetailId : d \in order_details}) + 1

\* (variant: the null check dropped)
ProductNeverMissing(product) == FALSE

\* if (!product): the lookup returned null
ProductMissing(product) == ~product.found

\* (variant: the items taken last to first)
CurrentItemReversed(r) ==
  cartRequest[r].items[Len(cartRequest[r].items) - k[r] + 1]

\* for (const item of cartRequest.items): the item of the current iteration
CurrentItem(r) == cartRequest[r].items[k[r]]

\* (variant: the loop left after its first iteration)
FirstItemOnly(r) == k[r] >= 1

\* the for-of loop has consumed the last item
LastItem(r) == k[r] = Len(cartRequest[r].items)

\* (variant: the price read from the products table at INSERT time)
UnitPriceLive(r, item) == products[item.productId]

\* unitPrice: product.price of the Product held in the validation map
UnitPriceOf(r, item) == productMap[r][item.productId].price

\* (variant: an entry already in the map is kept)
MapSetKeepFirst(m, key, value) ==
  [id \in DOMAIN m \cup {key} |-> IF id \in DOMAIN m THEN m[id] ELSE value]

\* new Map().set(key, value)
MapSet(m, key, value) ==
  [id \in DOMAIN m \cup {key} |-> IF id = key THEN value ELSE m[id]]

(* ---------------------- search: text and parameters -------------------- *)
\* A string is the sequence of its characters' code points.
Pct == 37          \* %
Dash == 45         \* -
Dot == 46          \* .
Und == 95          \* _
UA == 65           \* A
UB == 66           \* B
LA == 97           \* a
LB == 98           \* b
UE == 201          \* E with acute accent, upper case
LE == 233          \* e with acute accent, lower case

MinQueryLen == 3        \* query.length < 3 is rejected
DefaultLimit == 10
MaxLimit == 20

Min(a, b) == IF a < b THEN a ELSE b

\* String.prototype.toLowerCase, on the letters of Latin-1
JsLowerChar(c) ==
  IF (c >= 65 /\ c <= 90) \/ (c >= 192 /\ c <= 222 /\ c # 215)
  THEN c + 32 ELSE c

\* query.toLowerCase()
ToLowerCase(s) == [i \in DOMAIN s |-> JsLowerChar(s[i])]

\* SQLite folds the 26 ASCII letters only, in LOWER() and in LIKE
SqlLowerChar(c) == IF c >= 65 /\ c <= 90 THEN c + 32 ELSE c

\* SQL LOWER(name)
Lower(s) == [i \in DOMAIN s |-> SqlLowerChar(s[i])]

\* SQL x LIKE pattern: % matches any run of characters, _ any one
\* character, any other character itself, ASCII letters in either case
RECURSIVE Like(_, _)
Like(x, pattern) ==
  IF pattern = << >> THEN x = << >>
  ELSE IF Head(pattern) = Pct
       THEN Like(x, Tail(pattern)) \/ (x # << >> /\ Like(Tail(x), pattern))
       ELSE /\ x # << >>
            /\ \/ Head(pattern) = Und
               \/ SqlLowerChar(Head(x)) = SqlLowerChar(Head(pattern))
            /\ Like(Tail(x), Tail(pattern))

\* ORDER BY name: the BINARY collation compares the strings byte by byte
RECURSIVE NameLess(_, _)
NameLess(x, y) ==
  IF y = << >> THEN FALSE
  ELSE IF x = << >> THEN TRUE
  ELSE IF Head(x) # Head(y) THEN Head(x) < Head(y)
  ELSE NameLess(Tail(x), Tail(y))

IsDigit(c) == c >= 48 /\ c <= 57

\* the digits a string starts with, as a number
RECURSIVE LeadingDigits(_, _)
LeadingDigits(s, acc) ==
  IF s = << >> \/ ~IsDigit(Head(s)) THEN acc
  ELSE LeadingDigits(Tail(s), 10 * acc + (Head(s) - 48))

\* parseInt(string): an optional sign, then the leading digits; NaN when
\* there is none
ParseInt(s) ==
  LET neg == s # << >> /\ Head(s) = Dash
      body == IF neg THEN Tail(s) ELSE s
  IN IF body = << >> \/ ~IsDigit(Head(body))
     THEN [isNaN |-> TRUE, value |-> 0]
     ELSE [isNaN |-> FALSE,
           value |-> IF neg THEN 0 - LeadingDigits(body, 0)
                     ELSE LeadingDigits(body, 0)]

\* the decimal digits of n, 0 <= n <= 99
Decimal(n) ==
  IF n < 10 THEN <<48 + n>> ELSE <<48 + (n \div 10), 48 + (n % 10)>>

\* req.query.limit ? parseInt(req.query.limit) : 10
LimitOf(param) ==
  IF param = << >> THEN [isNaN |-> FALSE, value |-> DefaultLimit]
  ELSE ParseInt(param)

\* (variant: the sub-limit rounded down)
PerEntityLimitFloor(n) == n \div 3

\* Math.ceil(limit / 3)
PerEntityLimit(n) == (n + 2) \div 3

(* -------------------------- search: the store -------------------------- *)
Entities == <<"products", "suppliers", "orders">>
ValidEntities == {Entities[i] : i \in 1 .. 3}

\* rows of the three tables, in seeding order; sku is empty outside
\* products and date is 0 outside orders
ProductRows ==
  << [id |-> 5, name |-> <<LA, LB, LB>>, sku |-> <<LB, LA>>, date |-> 0],
     [id |-> 12, name |-> <<LA, LB, LB, LA>>, sku |-> <<LA, LB>>, date |-> 0],
     [id |-> 15, name |-> <<UA, LA, Und, LB>>, sku |-> <<LA, LB, LB>>,
      date |-> 0],
     [id |-> 20, name |-> <<LA, Und, LB, LB>>, sku |-> <<UA, UB, UB>>,
      date |-> 0] >>

SupplierRows ==
  << [id |-> 1, name |-> <<LA, LB, LB, LA>>, sku |-> << >>, date |-> 0],
     [id |-> 2, name |-> <<LB, UA, LB, LB>>, sku |-> << >>, date |-> 0],
     [id |-> 3, name |-> <<LA, LB, LB>>, sku |-> << >>, date |-> 0],
     [id |-> 4, name |-> <<LA, LB, LB>>, sku |-> << >>, date |-> 0] >>

OrderRows ==
  << [id |-> 1, name |-> <<UE, LA, LB, LB>>, sku |-> << >>, date |-> 1],
     [id |-> 2, name |-> <<UA, UE, LA, LB, LB>>, sku |-> << >>, date |-> 2],
     [id |-> 3, name |-> <<LE, LA, LB, LB>>, sku |-> << >>, date |-> 2],
     [id |-> 4, name |-> <<LA, LB, LB, Und>>, sku |-> << >>, date |-> 3] >>

Range(s) == {s[i] : i \in DOMAIN s}

\* a store holding the first np, ns and no seeded rows
Seeded(np, ns, no) ==
  [products |-> {ProductRows[i] : i \in 1 .. np},
   suppliers |-> {SupplierRows[i] : i \in 1 .. ns},
   orders |-> {OrderRows[i] : i \in 1 .. no}]

FullStore == Seeded(Len(ProductRows), Len(SupplierRows), Len(OrderRows))

Stores ==
  {Seeded(np, ns, no) : np \in 0 .. Len(ProductRows),
                        ns \in 0 .. Len(SupplierRows),
                        no \in 0 .. Len(OrderRows)}

(* ------------------------- search: the requests ------------------------ *)
Alphabet == {Pct, Und, UA, LA, LB, UE, LE}
Strings == UNION {[1 .. n -> Alphabet] : n \in 0 .. MaxQueryLen}

\* limit parameters: absent, 0 .. 21, and strings that are not a number
LimitParams ==
  {<< >>} \cup {Decimal(n) : n \in 0 .. MaxLimit + 1}
  \cup {<<Dash, 49>>, <<LA, LB>>, <<53, LA, LB>>, <<50, Dot, 53>>}

\* entity parameters: "" is absent (or empty)
EntityParams == {""} \cup ValidEntities \cup {"invalid"}

NoQuery == [q |-> << >>, entity |-> "", limit |-> << >>]

\* any text, every entity filter, a few limits
TextQueries ==
  [q : Strings, entity : EntityParams,
   limit : {<< >>, Decimal(1), Decimal(2)}]

\* one query that matches every seeded row and one that matches none,
\* with every limit
LimitQueries ==
  [q : {<<UA, LB, LB>>, <<LB, LB, LB>>}, entity : {""} \cup ValidEntities,
   limit : LimitParams]

\* queries of every length up to the minimum, with every entity and
\* limit parameter: requests that fail several checks at once
CheckQueries ==
  [q : {<< >>, <<LA>>, <<LA, LB>>, <<UA, LB, LB>>}, entity : EntityParams,
   limit : LimitParams]

(* ----------------------- SearchRepository, the SQL --------------------- *)
\* the columns the WHERE clause and the CASE test
Columns(entity, row) ==
  IF entity = "products" THEN {row.name, row.sku} ELSE {row.name}

\* WHERE LOWER(name) LIKE '%query%' [OR LOWER(sku) LIKE '%query%']
Matches(entity, row, q) ==
  \E c \in Columns(entity, row) : Like(Lower(c), <<Pct>> \o q \o <<Pct>>)

\* CASE WHEN LOWER(name) = exact THEN 1 WHEN LOWER(name) LIKE 'exact%'
\* THEN 2 ELSE 3 END, with exact = query.toLowerCase()
Relevance(entity, row, q) ==
  LET exactPattern == ToLowerCase(q)
  IN IF \E c \in Columns(entity, row) : Lower(c) = exactPattern THEN 1
     ELSE IF \E c \in Columns(entity, row) :
                Like(Lower(c), exactPattern \o <<Pct>>) THEN 2
     ELSE 3

\* the rows of SELECT ..., CASE ... END AS relevance FROM t WHERE ...
Selected(entity, q) ==
  {[id |-> row.id, name |-> row.name, sku |-> row.sku, date |-> row.date,
    relevance |-> Relevance(entity, row, q)] :
      row \in {r \in tables[entity] : Matches(entity, r, q)}}

\* ORDER BY relevance, name  (orders: ORDER BY relevance, order_date DESC):
\* row a sorts strictly before row b
SortsBefore(entity, a, b) ==
  \/ a.relevance < b.relevance
  \/ /\ a.relevance = b.relevance
     /\ IF entity = "orders" THEN a.date > b.date
        ELSE NameLess(a.name, b.name)

TypeOf(entity) ==
  CASE entity = "products" -> "product"
    [] entity = "suppliers" -> "supplier"
    [] entity = "orders" -> "order"

\* rows.map(row => ({type, id, text, ...}))
Suggestion(entity, row) ==
  [type |-> TypeOf(entity), id |-> row.id, text |-> row.name,
   sku |-> row.sku]

\* the rows no other row of M sorts strictly before
Foremost(entity, M) ==
  {a \in M : \A b \in M : ~SortsBefore(entity, b, a)}

\* the lists ORDER BY ... LIMIT n may make of the rows M: rows with equal
\* sort keys come in either order
RECURSIVE Ordered(_, _, _)
Ordered(entity, M, n) ==
  IF n = 0 \/ M = {} THEN {<< >>}
  ELSE UNION {{<<a>> \o rest : rest \in Ordered(entity, M \ {a}, n - 1)} :
                 a \in Foremost(entity, M)}

\* SELECT ... WHERE ... ORDER BY ... LIMIT n
Select(entity, q, n) == Ordered(entity, Selected(entity, q), n)

\* searchProducts / searchSuppliers / searchOrders: the results the call
\* may resolve with
SearchEntity(entity, q, n) ==
  {[i \in DOMAIN rows |-> Suggestion(entity, rows[i])] :
      rows \in Select(entity, q, n)}

(* -------------------- getSuggestions: the interleave ------------------- *)
Max3(a, b, c) == Max({a, b, c})

\* (variant: the three pushes chained with else)
PushesElseIf(acc, p, s, o, i) ==
  acc \o (IF i < Len(p) THEN <<p[i + 1]>>
          ELSE IF i < Len(s) THEN <<s[i + 1]>>
          ELSE IF i < Len(o) THEN <<o[i + 1]>> ELSE << >>)

\* allSuggestions after the pushes of iteration i (0-based)
Pushes(acc, p, s, o, i) ==
  acc \o (IF i < Len(p) THEN <<p[i + 1]>> ELSE << >>)
      \o (IF i < Len(s) THEN <<s[i + 1]>> ELSE << >>)
      \o (IF i < Len(o) THEN <<o[i + 1]>> ELSE << >>)

\* for (let i = 0; i < maxLength; i++) { push...;
\*   if (allSuggestions.length >= limit) break; }
RECURSIVE InterleaveFrom(_, _, _, _, _, _)
InterleaveFrom(acc, p, s, o, n, i) ==
  IF i >= Max3(Len(p), Len(s), Len(o)) THEN acc
  ELSE LET next == Pushes(acc, p, s, o, i)
       IN IF Len(next) >= n THEN next
          ELSE InterleaveFrom(next, p, s, o, n, i + 1)

\* (variant: the list returned unsliced)
SliceSkipped(a, n) == a

\* array.slice(0, n)
Slice(a, n) == SubSeq(a, 1, Min(n, Len(a)))

\* (variant: the lists concatenated instead of interleaved)
Concatenated(p, s, o, n) == Slice(p \o s \o o, n)

\* the tail of getSuggestions: interleave, then slice(0, limit)
Interleave(p, s, o, n) == Slice(InterleaveFrom(<< >>, p, s, o, n, 0), n)

(* --------------------- routes/search.ts validation --------------------- *)
MsgRequired == "Query parameter \"q\" is required"
MsgTooShort == "Query must be at least 3 characters long"
MsgEntity == "Invalid entity type. Must be one of: products, suppliers, orders"
MsgPositive == "Limit must be a positive number"
MsgExceed == "Limit cannot exceed 20"

\* !query: q absent or empty
QueryMissing(q) == q = << >>

\* (variant: a query of two characters let through)
QueryTooShortByOne(q) == Len(q) < MinQueryLen - 1

\* query.length < 3
QueryTooShort(q) == Len(q) < MinQueryLen

\* (variant: the entity parameter left unchecked)
EntityUnchecked(entity) == FALSE

\* entity && !validEntities.includes(entity)
EntityInvalid(entity) == entity # "" /\ entity \notin ValidEntities

\* isNaN(limit) || limit < 1
LimitNotPositive(l) == l.isNaN \/ l.value < 1

\* limit > 20
LimitTooLarge(l) == l.value > MaxLimit

\* (variant: the limit checks ahead of the entity check)
SearchValidateLimitFirst(rq) ==
  IF QueryMissing(rq.q) THEN MsgRequired
  ELSE IF QueryTooShort(rq.q) THEN MsgTooShort
  ELSE IF LimitNotPositive(LimitOf(rq.limit)) THEN MsgPositive
  ELSE IF LimitTooLarge(LimitOf(rq.limit)) THEN MsgExceed
  ELSE IF EntityInvalid(rq.entity) THEN MsgEntity
  ELSE "ok"

\* the checks of the handler, in source order
SearchValidate(rq) ==
  IF QueryMissing(rq.q) THEN MsgRequired
  ELSE IF QueryTooShort(rq.q) THEN MsgTooShort
  ELSE IF EntityInvalid(rq.entity) THEN MsgEntity
  ELSE IF LimitNotPositive(LimitOf(rq.limit)) THEN MsgPositive
  ELSE IF LimitTooLarge(LimitOf(rq.limit)) THEN MsgExceed
  ELSE "ok"

NoSres == [status |-> 0, error |-> "", suggestions |-> << >>]
NoFound == [e \in ValidEntities |-> << >>]

\* no search request: the state the order workflow runs in
NoSearch ==
  /\ tables = FullStore
  /\ query = NoQuery
  /\ spc = "idle"
  /\ limit = 0
  /\ pending = {}
  /\ found = NoFound
  /\ issued = {}
  /\ settled = << >>
  /\ failed = {}
  /\ sres = NoSres

(* ------------------------------- Init ---------------------------------- *)
\* A fresh store seeded with the products, and n requests yet to arrive.
InitWith(n) ==
  /\ products = [id \in ExistingIds |-> 2999]
  /\ orders = {}
  /\ order_details = {}
  /\ txn = NoTxn
  /\ faults = 0
  /\ pc = [r \in 1 .. n |-> "idle"]
  /\ cartRequest = [r \in 1 .. n |-> NoBody]
  /\ productMap = [r \in 1 .. n |-> << >>]
  /\ k = [r \in 1 .. n |-> 0]
  /\ orderId = [r \in 1 .. n |-> 0]
  /\ lastID = [r \in 1 .. n |-> 0]
  /\ caught = [r \in 1 .. n |-> ""]
  /\ orderDetails = [r \in 1 .. n |-> << >>]
  /\ res = [r \in 1 .. n |-> NoRes]
  /\ lookups = [r \in 1 .. n |-> << >>]
  /\ stmts = [r \in 1 .. n |-> << >>]

Init == InitWith(NumReqs) /\ NoSearch
InitRace == InitWith(NumRacers) /\ NoSearch

(* ------------------- POST /api/orders, step by step -------------------- *)
\* The handler has responded and returns: its locals are gone.
HandlerReturns(r) ==
  /\ pc' = [pc EXCEPT ![r] = "done"]
  /\ productMap' = [productMap EXCEPT ![r] = << >>]
  /\ k' = [k EXCEPT ![r] = 0]
  /\ orderId' = [orderId EXCEPT ![r] = 0]
  /\ lastID' = [lastID EXCEPT ![r] = 0]
  /\ orderDetails' = [orderDetails EXCEPT ![r] = << >>]
  /\ lookups' = [lookups EXCEPT ![r] = << >>]

\* An error thrown inside the try block lands in its catch.
Throw(r, err) ==
  /\ pc' = [pc EXCEPT ![r] = "rollback"]
  /\ caught' = [caught EXCEPT ![r] = err]

\* Request arrives: the handler runs synchronously through the branchId
\* and items checks up to its first await.
Receive(r, body) ==
  /\ pc[r] = "idle"
  /\ \A q \in Reqs : q < r => pc[q] # "idle"   \* numbered as they arrive
  /\ cartRequest' = [cartRequest EXCEPT ![r] = body]
  /\ IF Validate(body) # "ok"
     THEN /\ res' = [res EXCEPT ![r] = ValidationResponse(Validate(body))]
          /\ pc' = [pc EXCEPT ![r] = "done"]
          /\ k' = k
     ELSE /\ pc' = [pc EXCEPT ![r] = "lookup"]
          /\ k' = [k EXCEPT ![r] = 1]
          /\ res' = res
  /\ UNCHANGED <<searchVars, stmts,
                 dbVars, faults, productMap, orderId, lastID, caught,
                 orderDetails, lookups>>

\* a request with any body
Start(r) == pc[r] = "idle" /\ \E body \in Bodies : Receive(r, body)

\* a request whose cart is valid
StartCart(r) == pc[r] = "idle" /\ \E body \in Carts : Receive(r, body)

\* One iteration of the validation loop: await productsRepo.findById.
LookupProduct(r) ==
  /\ pc[r] = "lookup"
  /\ LET item == CurrentItem(r)
         product == FindProduct(item.productId)
     IN IF ProductMissing(product)
        THEN /\ res' = [res EXCEPT ![r] =
                          [NoRes EXCEPT !.status = 400,
                                        !.error = "Product not found",
                                        !.productId = item.productId]]
             /\ HandlerReturns(r)
        ELSE /\ productMap' = [productMap EXCEPT ![r] =
                                 MapSet(@, item.productId, product)]
             /\ lookups' = [lookups EXCEPT ![r] =
                             Append(@, StoreRow(item.productId))]
             /\ k' = [k EXCEPT ![r] = IF LastItem(r) THEN 0 ELSE @ + 1]
             /\ pc' = [pc EXCEPT ![r] =
                         IF LastItem(r) THEN "begin" ELSE "lookup"]
             /\ UNCHANGED <<orderId, lastID, orderDetails, res>>
  /\ UNCHANGED <<searchVars, stmts, dbVars, faults, cartRequest, caught>>

\* await db.run('BEGIN TRANSACTION'): the connection refuses a BEGIN while
\* it has a transaction open, and the handler's catch takes over.
Begin(r) ==
  /\ pc[r] = "begin"
  /\ stmts' = [stmts EXCEPT ![r] =
                 Append(@, [sql |-> "BEGIN", ok |-> ~txn.active])]
  /\ IF txn.active
     THEN /\ Throw(r, "cannot start a transaction within a transaction")
          /\ txn' = txn
     ELSE /\ txn' = [active |-> TRUE, by |-> r, products |-> products,
                     orders |-> orders, order_details |-> order_details]
          /\ pc' = [pc EXCEPT ![r] = "insertOrder"]
          /\ caught' = caught
  /\ UNCHANGED <<searchVars,
                 products, orders, order_details, faults, cartRequest,
                 productMap, k, orderId, lastID, orderDetails, lookups, res>>

\* ordersRepo.create, first await: the INSERT into orders.
InsertOrder(r) ==
  /\ pc[r] = "insertOrder"
  /\ orders' = orders \cup
       {[orderId |-> NextOrderId, branchId |-> cartRequest[r].branchId,
         status |-> "pending", name |-> "", description |-> "", by |-> r]}
  /\ lastID' = [lastID EXCEPT ![r] = NextOrderId]
  /\ pc' = [pc EXCEPT ![r] = "readOrder"]
  /\ UNCHANGED <<searchVars, stmts, products, order_details, txn, faults,
                 cartRequest,
                 productMap, k, orderId, caught, orderDetails, lookups, res>>

\* The store rejects the INSERT into orders; the error reaches the catch.
InsertOrderFails(r) ==
  /\ pc[r] = "insertOrder"
  /\ faults < MaxFaults
  /\ faults' = faults + 1
  /\ Throw(r, "INSERT INTO orders failed")
  /\ UNCHANGED <<searchVars, stmts,
                 dbVars, cartRequest, productMap, k, orderId, lastID,
                 orderDetails, lookups, res>>

\* ordersRepo.create, second await: findById(result.lastID); a missing
\* row throws 'Failed to retrieve created entity'.
ReadOrder(r) ==
  /\ pc[r] = "readOrder"
  /\ IF \E o \in orders : o.orderId = lastID[r]
     THEN /\ orderId' = [orderId EXCEPT ![r] = lastID[r]]
          /\ k' = [k EXCEPT ![r] = 1]
          /\ pc' = [pc EXCEPT ![r] = "insertDetail"]
          /\ caught' = caught
     ELSE /\ Throw(r, "Failed to retrieve created entity")
          /\ UNCHANGED <<orderId, k>>
  /\ UNCHANGED <<searchVars, stmts, dbVars, faults, cartRequest, productMap,
                 lastID,
                 orderDetails, lookups, res>>

\* orderDetailsRepo.create, first await: the INSERT into order_details.
InsertDetail(r) ==
  /\ pc[r] = "insertDetail"
  /\ LET item == CurrentItem(r)
     IN IF item.productId \notin DOMAIN productMap[r]
        THEN /\ Throw(r, "Product not found in validation map")
             /\ UNCHANGED <<order_details, lastID>>
        ELSE /\ order_details' = order_details \cup
                  {[orderDetailId |-> NextDetailId, orderId |-> orderId[r],
                    productId |-> item.productId, quantity |-> item.quantity,
                    unitPrice |-> UnitPriceOf(r, item), notes |-> "",
                    by |-> r, item |-> k[r]]}
             /\ lastID' = [lastID EXCEPT ![r] = NextDetailId]
             /\ pc' = [pc EXCEPT ![r] = "readDetail"]
             /\ caught' = caught
  /\ UNCHANGED <<searchVars, stmts,
                 products, orders, txn, faults, cartRequest, productMap, k,
                 orderId, orderDetails, lookups, res>>

\* The store rejects the INSERT into order_details.
InsertDetailFails(r) ==
  /\ pc[r] = "insertDetail"
  /\ faults < MaxFaults
  /\ faults' = faults + 1
  /\ Throw(r, "INSERT INTO order_details failed")
  /\ UNCHANGED <<searchVars, stmts,
                 dbVars, cartRequest, productMap, k, orderId, lastID,
                 orderDetails, lookups, res>>

\* orderDetailsRepo.create, second await: findById(result.lastID), then
\* orderDetails.push({...createdDetail, product}) and the next iteration.
ReadDetail(r) ==
  /\ pc[r] = "readDetail"
  /\ IF \E d \in order_details : d.orderDetailId = lastID[r]
     THEN LET d == CHOOSE d \in order_details : d.orderDetailId = lastID[r]
          IN /\ orderDetails' = [orderDetails EXCEPT ![r] =
                  Append(@, [orderDetailId |-> d.orderDetailId,
                             orderId |-> d.orderId,
                             productId |-> d.productId,
                             quantity |-> d.quantity,
                             unitPrice |-> d.unitPrice,
                             product |-> productMap[r][CurrentItem(r).productId]])]
             /\ k' = [k EXCEPT ![r] = IF LastItem(r) THEN 0 ELSE @ + 1]
             /\ pc' = [pc EXCEPT ![r] =
                         IF LastItem(r) THEN "commit" ELSE "insertDetail"]
             /\ caught' = caught
     ELSE /\ Throw(r, "Failed to retrieve created entity")
          /\ UNCHANGED <<orderDetails, k>>
  /\ UNCHANGED <<searchVars, stmts,
                 dbVars, faults, cartRequest, productMap, orderId, lastID,
                 lookups, res>>

\* await db.run('COMMIT'): fails when the connection has no transaction.
Commit(r) ==
  /\ pc[r] = "commit"
  /\ stmts' = [stmts EXCEPT ![r] =
                 Append(@, [sql |-> "COMMIT", ok |-> txn.active])]
  /\ IF txn.active
     THEN /\ txn' = NoTxn
          /\ pc' = [pc EXCEPT ![r] = "reread"]
          /\ caught' = caught
     ELSE /\ txn' = txn
          /\ Throw(r, "cannot commit - no transaction is active")
  /\ UNCHANGED <<searchVars,
                 products, orders, order_details, faults, cartRequest,
                 productMap, k, orderId, lastID, orderDetails, lookups, res>>

\* What ROLLBACK leaves in the store: the tables as the open transaction
\* found them; with no transaction open the statement fails and changes
\* nothing.
RolledBack ==
  IF txn.active
  THEN [products |-> txn.products, orders |-> txn.orders,
        order_details |-> txn.order_details]
  ELSE [products |-> products, orders |-> orders,
        order_details |-> order_details]

\* (variant: a catch block that rethrows without ROLLBACK)
RollbackSkipped(r) ==
  /\ pc[r] = "rollback"
  /\ res' = [res EXCEPT ![r] = InternalError(caught[r])]
  /\ HandlerReturns(r)
  /\ UNCHANGED <<searchVars, stmts, dbVars, faults, cartRequest, caught>>

\* catch: await db.run('ROLLBACK'); throw error.  The error that reaches
\* next(error) is the caught one, or ROLLBACK's own when ROLLBACK fails.
Rollback(r) ==
  /\ pc[r] = "rollback"
  /\ products' = RolledBack.products
  /\ orders' = RolledBack.orders
  /\ order_details' = RolledBack.order_details
  /\ txn' = NoTxn
  /\ res' = [res EXCEPT ![r] = InternalError(
               IF txn.active THEN caught[r]
               ELSE "cannot rollback - no transaction is active")]
  /\ stmts' = [stmts EXCEPT ![r] =
                 Append(@, [sql |-> "ROLLBACK", ok |-> txn.active])]
  /\ HandlerReturns(r)
  /\ UNCHANGED <<searchVars, faults, cartRequest, caught>>

\* await ordersRepo.findById(orderId), then res.status(201).json(...)
Reread(r) ==
  /\ pc[r] = "reread"
  /\ IF \E o \in orders : o.orderId = orderId[r]
     THEN LET o == CHOOSE o \in orders : o.orderId = orderId[r]
          IN res' = [res EXCEPT ![r] =
               [NoRes EXCEPT !.status = 201, !.orderId = o.orderId,
                             !.branchId = o.branchId,
                             !.orderStatus = o.status,
                             !.details = orderDetails[r]]]
     ELSE res' = [res EXCEPT ![r] =
               InternalError("Failed to retrieve created order")]
  /\ HandlerReturns(r)
  /\ UNCHANGED <<searchVars, stmts, dbVars, faults, cartRequest, caught>>

\* Another client changes a product's price (UPDATE products SET price).
UpdatePrice ==
  /\ \E p \in DOMAIN products, v \in Prices :
       /\ v # products[p]
       /\ products' = [products EXCEPT ![p] = v]
  /\ UNCHANGED <<searchVars, stmts,
                 orders, order_details, txn, faults, pc, reqLocals, res>>

Next ==
  \/ \E r \in Reqs : Start(r)
  \/ \E r \in Reqs : LookupProduct(r)
  \/ \E r \in Reqs : Begin(r)
  \/ \E r \in Reqs : InsertOrder(r)
  \/ \E r \in Reqs : InsertOrderFails(r)
  \/ \E r \in Reqs : ReadOrder(r)
  \/ \E r \in Reqs : InsertDetail(r)
  \/ \E r \in Reqs : InsertDetailFails(r)
  \/ \E r \in Reqs : ReadDetail(r)
  \/ \E r \in Reqs : Commit(r)
  \/ \E r \in Reqs : Rollback(r)
  \/ \E r \in Reqs : Reread(r)
  \/ UpdatePrice

\* Any bodies, rejected statements and price changes, NumReqs requests.
Spec == Init /\ [][Next]_vars

\* NumRacers requests with valid carts on a store that rejects nothing.
NextRace ==
  \/ \E r \in Reqs : StartCart(r)
  \/ \E r \in Reqs : LookupProduct(r)
  \/ \E r \in Reqs : Begin(r)
  \/ \E r \in Reqs : InsertOrder(r)
  \/ \E r \in Reqs : ReadOrder(r)
  \/ \E r \in Reqs : InsertDetail(r)
  \/ \E r \in Reqs : ReadDetail(r)
  \/ \E r \in Reqs : Commit(r)
  \/ \E r \in Reqs : Rollback(r)
  \/ \E r \in Reqs : Reread(r)

SpecRace == InitRace /\ [][NextRace]_vars

\* The same race while another client changes the product's price.
NextPriceRace ==
  \/ NextRace
  \/ UpdatePrice

SpecPriceRace == InitRace /\ [][NextPriceRace]_vars

(* ---------------- GET /api/search/suggestions, step by step ------------ *)
\* (variant: the sub-limit used with an entity filter too)
SearchLimitSplit(entity, n) == PerEntityLimit(n)

\* the limit getSuggestions hands to a per-entity search: the request's
\* limit under an entity filter, ceil(limit / 3) when all are searched
SearchLimit(entity, n) ==
  IF entity \in ValidEntities THEN n ELSE PerEntityLimit(n)

\* the entities getSuggestions searches
Searched(entity) == IF entity \in ValidEntities THEN {entity} ELSE ValidEntities

\* The request arrives: the handler parses the limit and runs its checks,
\* synchronously, up to await getSearchRepository().
SuggestionsRequest ==
  /\ spc = "idle"
  /\ IF SearchValidate(query) # "ok"
     THEN /\ sres' = [NoSres EXCEPT !.status = 400,
                                    !.error = SearchValidate(query)]
          /\ spc' = "done"
          /\ limit' = limit
     ELSE /\ limit' = LimitOf(query.limit).value
          /\ spc' = "repo"
          /\ sres' = sres
  /\ UNCHANGED <<orderVars, tables, query, pending, found, issued, settled,
                 failed>>

\* getSearchRepository has resolved; getSuggestions issues the search of
\* the filtered entity, or the three searches of Promise.all.
GetSuggestions ==
  /\ spc = "repo"
  /\ pending' = Searched(query.entity)
  /\ issued' = {[entity |-> e, limit |-> SearchLimit(query.entity, limit)] :
                   e \in Searched(query.entity)}
  /\ spc' = "search"
  /\ UNCHANGED <<orderVars, tables, query, limit, found, settled, failed,
                 sres>>

\* One of the issued searches resolves with its rows.
SearchCompletes(e) ==
  /\ spc = "search"
  /\ e \in pending
  /\ \E result \in SearchEntity(e, query.q,
                                SearchLimit(query.entity, limit)) :
        found' = [found EXCEPT ![e] = result]
  /\ pending' = pending \ {e}
  /\ settled' = Append(settled, e)
  /\ UNCHANGED <<orderVars, tables, query, spc, limit, issued, failed, sres>>

\* (variant: the catch of a search swallows the error and returns no rows)
SearchFailsQuietly(e) ==
  /\ spc = "search"
  /\ e \in pending
  /\ pending' = pending \ {e}
  /\ failed' = failed \cup {e}
  /\ UNCHANGED <<orderVars, tables, query, spc, limit, found, issued, settled,
                 sres>>

\* One of the issued searches rejects: handleDatabaseError rethrows, the
\* await (or Promise.all) rejects and next(error) answers 500; the lists
\* the other searches returned, or will return, go nowhere.
SearchFails(e) ==
  /\ spc = "search"
  /\ e \in pending
  /\ pending' = {}
  /\ failed' = failed \cup {e}
  /\ sres' = [NoSres EXCEPT !.status = 500, !.error = "Database error"]
  /\ spc' = "done"
  /\ UNCHANGED <<orderVars, tables, query, limit, found, issued, settled>>

\* (variant: the lists merged as soon as one search has returned)
RespondEarly ==
  /\ spc = "search"
  /\ pending # Searched(query.entity)
  /\ sres' = [NoSres EXCEPT
                !.status = 200,
                !.suggestions =
                   IF query.entity \in ValidEntities THEN found[query.entity]
                   ELSE Interleave(found["products"], found["suppliers"],
                                   found["orders"], limit)]
  /\ spc' = "done"
  /\ UNCHANGED <<orderVars, tables, query, limit, pending, found, issued,
                 settled, failed>>

\* Every issued search has resolved: getSuggestions returns the filtered
\* entity's list or the interleaved one, and res.json sends it.
Respond ==
  /\ spc = "search"
  /\ pending = {}
  /\ sres' = [NoSres EXCEPT
                !.status = 200,
                !.suggestions =
                   IF query.entity \in ValidEntities THEN found[query.entity]
                   ELSE Interleave(found["products"], found["suppliers"],
                                   found["orders"], limit)]
  /\ spc' = "done"
  /\ UNCHANGED <<orderVars, tables, query, limit, pending, found, issued,
                 settled, failed>>

NextSearch ==
  \/ SuggestionsRequest
  \/ GetSuggestions
  \/ \E e \in ValidEntities : SearchCompletes(e)
  \/ \E e \in ValidEntities : SearchFails(e)
  \/ Respond

\* One search request: any text, or any mix of parameters, against the
\* seeded store, or a query with any limit against a store of any size.
\* No order request is in flight.
InitSearch ==
  /\ InitWith(0)
  /\ \/ tables = FullStore /\ query \in TextQueries \cup CheckQueries
     \/ tables \in Stores /\ query \in LimitQueries
  /\ spc = "idle"
  /\ limit = 0
  /\ pending = {}
  /\ found = NoFound
  /\ issued = {}
  /\ settled = << >>
  /\ failed = {}
  /\ sres = NoSres

SpecSearch == InitSearch /\ [][NextSearch]_vars

(* --------------------------- the claims -------------------------------- *)
\* rows a request's INSERTs wrote that the connection still shows
OrderRowsOf(r) == {o \in orders : o.by = r}
DetailRowsOf(r) == {d \in order_details : d.by = r}

\* errors raised while creating the Order row or an OrderDetail row
CreateErrors == {"INSERT INTO orders failed",
                 "INSERT INTO order_details failed",
                 "Failed to retrieve created entity"}

\* all requests have responded (or never arrived)
Quiescent == \A r \in Reqs : pc[r] \in {"idle", "done"}

\* request r's order and every one of its details, and nothing else of r
Complete(r) ==
  /\ Cardinality(OrderRowsOf(r)) = 1
  /\ Cardinality(DetailRowsOf(r)) = Len(cartRequest[r].items)
  /\ \A i \in 1 .. Len(cartRequest[r].items) :
       \E o \in OrderRowsOf(r), d \in DetailRowsOf(r) :
          d.item = i /\ d.orderId = o.orderId

Absent(r) == OrderRowsOf(r) = {} /\ DetailRowsOf(r) = {}

\* C1: a request whose Order or OrderDetail creation raised an exception
\* after BEGIN TRANSACTION has, once it has responded, none of its Order
\* or OrderDetail rows visible.
C1_FailedCreationLeavesNoRows ==
  \A r \in Reqs :
    (pc[r] = "done" /\ caught[r] \in CreateErrors) => Absent(r)

\* C2: once all concurrent requests have responded, each request's rows
\* are all persisted or none of them is.
C2_AllOrNothing ==
  Quiescent => \A r \in Reqs : Complete(r) \/ Absent(r)

\* the price the store held for pid when request r last looked it up
SeenPrice(r, pid) ==
  LET I == {i \in 1 .. Len(lookups[r]) : lookups[r][i].productId = pid}
  IN IF I = {} THEN 0 ELSE lookups[r][Max(I)].price

\* C3: an order_details row enters the table with the price its product
\* had when its request looked the product up, and no later step (a price
\* update included) changes the row: rows are only added or rolled back.
C3_PriceSnapshot ==
  [][\A d \in order_details' :
        \/ d \in order_details
        \/ d.by \in Reqs /\ d.unitPrice = SeenPrice(d.by, d.productId)]_vars

\* two committed orders of one product, taken before and after a price
\* update, each with the price of its time
C3_Witness ==
  /\ Quiescent /\ ~txn.active
  /\ \E d1, d2 \in order_details :
       /\ d1.productId = d2.productId /\ d1.by # d2.by
       /\ d1.unitPrice # d2.unitPrice
       /\ res[d1.by].status = 201 /\ res[d2.by].status = 201

\* the request's body passed both checks and names a product with no row
HasMissingProduct(r) ==
  /\ pc[r] # "idle"
  /\ cartRequest[r].branchId # 0
  /\ cartRequest[r].itemsKind = "array"
  /\ \E i \in 1 .. Len(cartRequest[r].items) :
       cartRequest[r].items[i].productId \notin DOMAIN products

\* C4: a request naming a missing product, at whatever position, never has
\* a row in orders or order_details, never opens a transaction, and is
\* answered 400 "Product not found".
C4_MissingProductWritesNothing ==
  \A r \in Reqs :
    HasMissingProduct(r) =>
      /\ Absent(r)
      /\ pc[r] \in {"lookup", "done"}
      /\ pc[r] = "done" =>
            res[r].status = 400 /\ res[r].error = "Product not found"

\* a rejected request whose missing product is its second item, while the
\* tables hold another request's rows
C4_Witness ==
  \E r \in Reqs :
    /\ HasMissingProduct(r) /\ pc[r] = "done"
    /\ Len(cartRequest[r].items) = 2
    /\ cartRequest[r].items[1].productId \in DOMAIN products
    /\ orders # {} /\ order_details # {}

WritePhase == {"begin", "insertOrder", "readOrder", "insertDetail",
               "readDetail", "commit", "rollback", "reread"}

\* C5: a request that has reached BEGIN TRANSACTION or has a row in the
\* tables has looked up every item's product, in order, and found it; a
\* request that has looked up any product has passed the branchId and
\* items checks.
C5_WritesAfterAllLookups ==
  \A r \in Reqs :
    /\ (pc[r] = "lookup" \/ lookups[r] # << >>) =>
          /\ cartRequest[r].branchId # 0
          /\ cartRequest[r].itemsKind = "array"
          /\ cartRequest[r].items # << >>
    /\ pc[r] \in WritePhase =>
          /\ Len(lookups[r]) = Len(cartRequest[r].items)
          /\ \A i \in 1 .. Len(lookups[r]) :
                /\ lookups[r][i].productId = cartRequest[r].items[i].productId
                /\ lookups[r][i].exists
    /\ ~Absent(r) =>
          /\ pc[r] \in WritePhase \cup {"done"}
          /\ \A i \in 1 .. Len(cartRequest[r].items) :
                cartRequest[r].items[i].productId \in DOMAIN products

\* a request with two items has written its order row
C5_Witness ==
  \E r \in Reqs :
    /\ pc[r] = "readOrder" /\ OrderRowsOf(r) # {}
    /\ Len(cartRequest[r].items) = 2

\* index of the first item whose product has no row (0: there is none)
FirstMiss(items) ==
  LET M == {i \in 1 .. Len(items) : items[i].productId \notin DOMAIN products}
  IN IF M = {} THEN 0 ELSE CHOOSE i \in M : \A j \in M : i <= j

\* C6: products are looked up in input order up to the first miss: the
\* lookups made so far are those of items 1 .. k-1, all found, and the 400
\* "Product not found" response carries the productId of the first item
\* whose product is missing.
C6_FirstMissReported ==
  \A r \in Reqs :
    /\ pc[r] = "lookup" =>
          /\ Len(lookups[r]) = k[r] - 1
          /\ \A i \in 1 .. Len(lookups[r]) :
                /\ lookups[r][i].productId = cartRequest[r].items[i].productId
                /\ lookups[r][i].exists
    /\ res[r].error = "Product not found" =>
          /\ res[r].status = 400
          /\ FirstMiss(cartRequest[r].items) # 0
          /\ res[r].productId =
                cartRequest[r].items[FirstMiss(cartRequest[r].items)].productId

\* two different missing products: the first one is reported
C6_Witness ==
  \E r \in Reqs :
    /\ res[r].error = "Product not found"
    /\ Len(cartRequest[r].items) = 2
    /\ cartRequest[r].items[1].productId \notin DOMAIN products
    /\ cartRequest[r].items[2].productId \notin DOMAIN products
    /\ cartRequest[r].items[1].productId # cartRequest[r].items[2].productId

\* C7: once all requests have responded, a request answered 201 has
\* exactly one Order row and one OrderDetail row per item, the i-th with
\* the i-th item's productId and quantity, and its response lists as many
\* details as the request had items.
C7_SuccessPersistsOrderAndDetails ==
  Quiescent =>
    \A r \in Reqs :
      res[r].status = 201 =>
        /\ Complete(r)
        /\ Len(res[r].details) = Len(cartRequest[r].items)
        /\ \A o \in OrderRowsOf(r) :
              /\ o.branchId = cartRequest[r].branchId
              /\ o.status = "pending" /\ o.name = "" /\ o.description = ""
        /\ \A d \in DetailRowsOf(r) :
              /\ d.productId = cartRequest[r].items[d.item].productId
              /\ d.quantity = cartRequest[r].items[d.item].quantity

\* C8: no OrderDetail row with a quantity below 1 is ever in the table.
C8_QuantityAtLeastOne ==
  \A d \in order_details : d.quantity >= 1

\* C9: when a request's COMMIT succeeds, each of its order_details rows
\* carries the price the request read at validation, whatever the
\* products table holds by then; and a price update moves no request.
C9_ValidationTimePrice ==
  [][/\ \A r \in Reqs :
          (pc[r] = "commit" /\ pc'[r] = "reread") =>
             \A d \in order_details' :
                d.by = r => d.unitPrice = SeenPrice(r, d.productId)
     /\ (products' # products /\ txn' = txn) => pc' = pc]_vars

\* a COMMIT has succeeded on rows whose price the table no longer holds
C9_Witness ==
  \E r \in Reqs :
    /\ pc[r] = "reread"
    /\ DetailRowsOf(r) # {}
    /\ \A d \in DetailRowsOf(r) : d.unitPrice # products[d.productId]

\* C10: a request whose branchId is absent or falsy is answered 400
\* "branchId is required" whatever its items field holds, without a
\* product lookup or a write.
C10_BranchIdFirst ==
  \A r \in Reqs :
    (pc[r] # "idle" /\ cartRequest[r].branchId = 0) =>
      /\ pc[r] = "done"
      /\ res[r].status = 400
      /\ res[r].error = "branchId is required"
      /\ lookups[r] = << >>
      /\ Absent(r)

\* a request with neither branchId nor items
C10_Witness ==
  \E r \in Reqs :
    /\ pc[r] = "done"
    /\ cartRequest[r].branchId = 0
    /\ cartRequest[r].itemsKind = "missing"
    /\ res[r].error = "branchId is required"

\* the request has arrived with a branchId and an items field that is
\* missing, not an array, or empty
BadItems(r) ==
  /\ pc[r] # "idle"
  /\ cartRequest[r].branchId # 0
  /\ \/ cartRequest[r].itemsKind \in {"missing", "notArray"}
     \/ cartRequest[r].items = << >>

\* C11: a request with a valid branchId whose items field is missing, not
\* an array or empty is answered 400 "items array must not be empty" in
\* the step it arrives in; that step leaves the store as it was, and the
\* request never looks up a product or has a row in the tables.
C11_ItemsRequired ==
  [][\A r \in Reqs :
        BadItems(r)' =>
          /\ pc'[r] = "done"
          /\ res'[r].status = 400
          /\ res'[r].error = "items array must not be empty"
          /\ lookups'[r] = << >>
          /\ Absent(r)'
          /\ pc[r] = "idle" => UNCHANGED dbVars]_vars

\* one request rejected for a non-array items field, another for an
\* empty array
C11_Witness ==
  \E r, q \in Reqs :
    /\ BadItems(r) /\ BadItems(q)
    /\ cartRequest[r].itemsKind = "notArray"
    /\ cartRequest[q].itemsKind = "array"
    /\ res[r].error = "items array must not be empty"
    /\ res[q].error = "items array must not be empty"

(* ------------------------ the claims on search -------------------------- *)
\* the search request has been answered
Answered == spc = "done"

\* C12 as stated: every q of length 0, 1 or 2 is answered 400 with the
\* message "Query must be at least 3 characters long".
C12_ShortQueryRejected ==
  (Answered /\ Len(query.q) < 3) =>
     sres.status = 400 /\ sres.error = MsgTooShort

\* C12 amended: a q of 1 or 2 characters is answered 400 "Query must be
\* at least 3 characters long"; an empty (or absent) q is answered 400
\* "Query parameter "q" is required"; neither runs a search.
C12_ShortOrMissingQuery ==
  (Answered /\ Len(query.q) < 3) =>
     /\ sres.status = 400
     /\ sres.error = IF Len(query.q) = 0 THEN MsgRequired ELSE MsgTooShort
     /\ issued = {}

\* a two-character query, rejected for its length although its entity
\* and limit are invalid too
C12_Witness ==
  /\ Answered /\ Len(query.q) = 2
  /\ query.entity = "invalid" /\ query.limit = << >>
  /\ sres.status = 400 /\ sres.error = MsgTooShort

\* a 200 response
Succeeded == Answered /\ sres.status = 200

\* C13: a 200 response lists at most `limit` suggestions, at most 10 when
\* the limit parameter is omitted, and never more than 20, with or
\* without an entity filter.
C13_CountWithinLimit ==
  Succeeded =>
    /\ \A n \in 1 .. 20 :
          query.limit = Decimal(n) => Len(sres.suggestions) <= n
    /\ query.limit = << >> => Len(sres.suggestions) <= 10
    /\ Len(sres.suggestions) <= 20

\* twelve rows match, no filter and no limit parameter: ten are returned
C13_Witness ==
  /\ Succeeded
  /\ query.limit = << >> /\ query.entity = ""
  /\ \A e \in ValidEntities : Len(found[e]) = 4
  /\ Len(sres.suggestions) = 10

\* the round-robin merge of three lists: round i takes the i-th element
\* of each list that has one, in the order p, s, o
RoundRobin(p, s, o) ==
  LET lists == <<p, s, o>>
      slots == {sl \in (1 .. Max3(Len(p), Len(s), Len(o))) \X (1 .. 3) :
                   sl[1] <= Len(lists[sl[2]])}
      Earlier(a, b) == a[1] < b[1] \/ (a[1] = b[1] /\ a[2] < b[2])
      Rank(sl) == Cardinality({x \in slots : Earlier(x, sl)}) + 1
  IN [j \in 1 .. Cardinality(slots) |->
        LET sl == CHOOSE x \in slots : Rank(x) = j
        IN lists[sl[2]][sl[1]]]

\* the suggestions of one type, in the order the list has them
OfType(list, type) == SelectSeq(list, LAMBDA x : x.type = type)

\* C14: with no entity filter the 200 response is exactly the first
\* `limit` elements of the round-robin merge of the three per-entity
\* result lists, and its suggestions of each type are the head of that
\* type's list, in the list's order.
C14_RoundRobinPrefix ==
  (Succeeded /\ query.entity = "") =>
    LET merged == RoundRobin(found["products"], found["suppliers"],
                             found["orders"])
    IN /\ sres.suggestions = SubSeq(merged, 1, Min(limit, Len(merged)))
       /\ \A e \in ValidEntities :
             LET mine == OfType(sres.suggestions, TypeOf(e))
             IN mine = SubSeq(found[e], 1, Len(mine))

\* limit 4: two products, the only supplier and two orders were found; the
\* supplier list runs out in round 2 and the merge of five is cut to four
C14_Witness ==
  /\ Succeeded /\ query.entity = "" /\ limit = 4
  /\ Len(found["products"]) = 2
  /\ Len(found["suppliers"]) = 1
  /\ Len(found["orders"]) = 2
  /\ Len(sres.suggestions) = 4
  /\ sres.suggestions[4].type = "product"

\* the per-entity searches that returned at least one row
TypesFound == {e \in ValidEntities : found[e] # << >>}

\* the distinct type values of the response
TypesReturned == {sres.suggestions[i].type : i \in DOMAIN sres.suggestions}

\* C15 as stated: with no entity filter, for every valid limit (1 .. 20),
\* a query that finds rows of at least two entity types is answered with
\* suggestions of more than one type.
C15_TwoTypesAnyLimit ==
  (Succeeded /\ query.entity = "" /\ Cardinality(TypesFound) >= 2) =>
     Cardinality(TypesReturned) > 1

\* C15 amended: the same for every limit from 2 to 20; with limit 1 the
\* single suggestion has one type.
C15_TwoTypesFromLimitTwo ==
  (Succeeded /\ query.entity = "" /\ Cardinality(TypesFound) >= 2) =>
     /\ limit >= 2 => Cardinality(TypesReturned) > 1
     /\ limit = 1 => Cardinality(TypesReturned) = 1

\* limit 2 with rows of all three types: a product and a supplier
C15_Witness ==
  /\ Succeeded /\ query.entity = "" /\ limit = 2
  /\ Cardinality(TypesFound) = 3
  /\ TypesReturned = {"product", "supplier"}

\* case-insensitive comparison of text: both sides case-folded
FoldCase(x) == [i \in DOMAIN x |-> JsLowerChar(x[i])]
SameText(x, q) == FoldCase(x) = FoldCase(q)
StartsWith(x, q) ==
  Len(x) >= Len(q) /\ SubSeq(FoldCase(x), 1, Len(q)) = FoldCase(q)
Contains(x, q) ==
  \E i \in 1 .. Len(x) - Len(q) + 1 :
     SubSeq(FoldCase(x), i, i + Len(q) - 1) = FoldCase(q)

\* the relevance tier of a row for a query: 1 exact, 2 prefix only,
\* 3 contains only; 4 when no searched column contains the query
Tier(entity, row, q) ==
  IF \E c \in Columns(entity, row) : SameText(c, q) THEN 1
  ELSE IF \E c \in Columns(entity, row) : StartsWith(c, q) THEN 2
  ELSE IF \E c \in Columns(entity, row) : Contains(c, q) THEN 3
  ELSE 4

\* the table row a suggestion was made from
RowOf(entity, suggestion) ==
  CHOOSE row \in tables[entity] : row.id = suggestion.id

\* the searches that have returned their rows
Returned ==
  IF spc = "search" \/ Succeeded
  THEN {i.entity : i \in issued} \ pending ELSE {}

\* C16: in every per-entity result the tiers of the matching rows never
\* decrease along the list (exact, then prefix only, then contains only),
\* and no matching row left out by the limit has a strictly better tier
\* than a returned one.
C16_TiersInOrder ==
  \A e \in Returned :
    LET T(i) == Tier(e, RowOf(e, found[e][i]), query.q)
        hits == {i \in DOMAIN found[e] : T(i) <= 3}
        left == {row \in tables[e] :
                   /\ Tier(e, row, query.q) <= 3
                   /\ \A i \in DOMAIN found[e] : found[e][i].id # row.id}
    IN /\ \A i, j \in hits : i < j => T(i) <= T(j)
       /\ \A row \in left : \A i \in hits :
             Tier(e, row, query.q) >= T(i)

\* C17: every suggestion a per-entity search returns comes from a row
\* one of whose searched columns contains the query, compared without
\* regard to case, whatever characters the query holds; and a row is given
\* relevance 2 only if one of those columns starts with the query.
C17_OnlyRowsContainingQuery ==
  \A e \in Returned :
    \A i \in DOMAIN found[e] :
      LET row == RowOf(e, found[e][i])
      IN /\ \E c \in Columns(e, row) : Contains(c, query.q)
         /\ Relevance(e, row, query.q) = 2 =>
               \E c \in Columns(e, row) : StartsWith(c, query.q)

\* the queries that differ from q in letter case only
CaseVariants(q) ==
  {v \in Strings : Len(v) = Len(q) /\ FoldCase(v) = FoldCase(q)}

\* C18: what a per-entity search returns for a query is what it returns,
\* on the same store and with the same limit, for every query that
\* differs from it in letter case only: same rows, same order.
C18_CaseInsensitive ==
  \A e \in Returned :
    \A v \in CaseVariants(query.q) :
      found[e] \in SearchEntity(e, v, SearchLimit(query.entity, limit))

\* the limit the request asks for: its limit parameter, 10 when omitted
Requested ==
  IF query.limit = << >> THEN 10
  ELSE CHOOSE n \in 0 .. 99 : Decimal(n) = query.limit

\* the request passed validation with an entity filter and a plain limit
Filtered ==
  /\ spc \in {"search", "done"} /\ sres.status # 400
  /\ query.entity \in ValidEntities
  /\ query.limit \in {<< >>} \cup {Decimal(n) : n \in 1 .. 20}

\* C19: under an entity filter the repository runs one search, on that
\* entity's table, with the full requested limit; the 200 response is that
\* search's list, as long as the limit allows, and every suggestion has
\* the entity's type.
C19_FilterSearchesOneEntity ==
  Filtered =>
    /\ issued = {[entity |-> query.entity, limit |-> Requested]}
    /\ \A e \in ValidEntities \ {query.entity} : found[e] = << >>
    /\ Succeeded =>
          /\ sres.suggestions = found[query.entity]
          /\ \A i \in DOMAIN sres.suggestions :
                sres.suggestions[i].type = TypeOf(query.entity)
          /\ Len(sres.suggestions) =
                Min(Requested,
                    Cardinality(Selected(query.entity, query.q)))

\* entity=products&limit=4 returns four products, twice ceil(4 / 3)
C19_Witness ==
  /\ Filtered /\ Succeeded
  /\ query.entity = "products" /\ query.limit = Decimal(4)
  /\ Len(sres.suggestions) = 4
  /\ tables["suppliers"] # {} /\ tables["orders"] # {}

\* no searched column of any row of the searched tables contains the query
NoMatch ==
  \A e \in Searched(query.entity) :
    \A row \in tables[e] : Tier(e, row, query.q) = 4

\* C20: a valid request whose query is contained in no row of the
\* searched entities is answered, unless a search itself failed, 200 with
\* an empty suggestions list.
C20_NoMatchIsEmpty ==
  (Answered /\ sres.status \notin {400, 500} /\ NoMatch) =>
     sres.status = 200 /\ sres.suggestions = << >>

\* the limit parameter is a whole number from 1 to 20, written in digits
PlainLimit(param) == param \in {Decimal(n) : n \in 1 .. 20}

\* C21: a request whose limit parameter is present and is not a whole
\* number from 1 to 20 (0, a negative number, a number above 20, text that
\* is not entirely a number) is answered 400 in the step it arrives in,
\* and no search is issued for it.
C21_BadLimitRejected ==
  (spc # "idle" /\ query.limit # << >> /\ ~PlainLimit(query.limit)) =>
     /\ Answered
     /\ sres.status = 400
     /\ issued = {}

\* the entity parameter is given and names none of the three entities
UnknownEntity ==
  query.entity # "" /\ query.entity \notin {"products", "suppliers", "orders"}

AlphaBefore(x, y) == NameLess(FoldCase(x), FoldCase(y))

\* C23: in every per-entity result, two suggestions of the same relevance
\* come alphabetically by name (products, suppliers) or by order date,
\* most recent first (orders); and the list is the only one the search can
\* give for this store, query and limit.
C23_OrderedAndDeterministic ==
  \A e \in Returned :
    LET row(i) == RowOf(e, found[e][i])
        tier(i) == Relevance(e, row(i), query.q)
    IN /\ \A i, j \in DOMAIN found[e] :
             (i < j /\ tier(i) = tier(j)) =>
                IF e = "orders" THEN row(i).date >= row(j).date
                ELSE ~AlphaBefore(row(j).name, row(i).name)
       /\ \A other \in SearchEntity(e, query.q,
                                    SearchLimit(query.entity, limit)) :
             other = found[e]

\* slot of an entity type within a round of the merge
SlotOf(type) ==
  CASE type = "product" -> 0 [] type = "supplier" -> 1 [] type = "order" -> 2

\* the entity whose search returns suggestions of this type
EntityOf(type) == CHOOSE e \in ValidEntities : TypeOf(e) = type

\* the round a suggestion belongs to: its 0-based place in its own list
RoundOf(x) ==
  (CHOOSE i \in DOMAIN found[EntityOf(x.type)] :
      found[EntityOf(x.type)][i] = x) - 1

\* round and slot of x come strictly before those of y
SlotBefore(x, y) ==
  \/ RoundOf(x) < RoundOf(y)
  \/ RoundOf(x) = RoundOf(y) /\ SlotOf(x.type) < SlotOf(y.type)

\* C24: with no entity filter, a 200 response is sent only after all three
\* searches have returned, in whatever order they did; it lists the
\* suggestions by round and, within a round, product, supplier, order, with
\* no suggestion of an earlier round or slot left out, so it is a function
\* of the three lists and the limit alone.
C24_SlotsWhateverTheOrder ==
  (Succeeded /\ query.entity = "") =>
    LET out == sres.suggestions
        all == UNION {{found[e][i] : i \in DOMAIN found[e]} :
                         e \in ValidEntities}
        listed == {out[j] : j \in DOMAIN out}
    IN /\ pending = {}
       /\ {settled[i] : i \in DOMAIN settled} = ValidEntities
       /\ Len(settled) = 3
       /\ listed \subseteq all
       /\ \A a, b \in DOMAIN out : a < b => SlotBefore(out[a], out[b])
       /\ \A x \in all \ listed : \A y \in listed : ~SlotBefore(x, y)
       /\ Len(out) = Min(limit, Cardinality(all))

\* the searches returned orders first and products last, each with two
\* rows or more; the response still opens product, supplier, order
C24_Witness ==
  /\ Succeeded /\ query.entity = ""
  /\ settled = <<"orders", "suppliers", "products">>
  /\ \A e \in ValidEntities : Len(found[e]) >= 2
  /\ Len(sres.suggestions) >= 5
  /\ sres.suggestions[1].type = "product"
  /\ sres.suggestions[2].type = "supplier"
  /\ sres.suggestions[3].type = "order"
  /\ sres.suggestions[4].type = "product"

\* C25: with no entity filter, once one of the three searches has been
\* rejected the request is answered 500 with a database error and an empty
\* suggestions list, in the step of the rejection, whatever the other
\* searches returned; it is never answered 200.
C25_OneFailureFailsAll ==
  (query.entity = "" /\ failed # {}) =>
     /\ Answered
     /\ sres.status = 500 /\ sres.error = "Database error"
     /\ sres.suggestions = << >>

\* the product and supplier searches returned rows, then the order search
\* was rejected
C25_Witness ==
  /\ query.entity = "" /\ failed = {"orders"}
  /\ settled = <<"products", "suppliers">>
  /\ found["products"] # << >> /\ found["suppliers"] # << >>
  /\ sres.status = 500

\* ceil(n / 3), from its definition
Ceil3(n) == CHOOSE m \in 0 .. n : 3 * m >= n /\ 3 * (m - 1) < n

\* the number of rows of an entity's table the search selects for the query
Matching(e) == Cardinality(Selected(e, query.q))

\* C26: with no entity filter a 200 response holds at most ceil(limit / 3)
\* suggestions of each type, and min(limit, sum over the three types of
\* min(matching rows, ceil(limit / 3))) suggestions in all: exactly `limit`
\* when every type has at least ceil(limit / 3) matching rows.
C26_LengthFormula ==
  (Succeeded /\ query.entity = "") =>
    LET share(e) == Min(Matching(e), Ceil3(limit))
        total == share("products") + share("suppliers") + share("orders")
    IN /\ \A e \in ValidEntities :
             Len(OfType(sres.suggestions, TypeOf(e))) <= Ceil3(limit)
       /\ Len(sres.suggestions) = Min(limit, total)
       /\ (\A e \in ValidEntities : Matching(e) >= Ceil3(limit)) =>
             Len(sres.suggestions) = limit

\* limit 4 on a store where four products match and nothing else does:
\* two suggestions, not four
C26_Witness ==
  /\ Succeeded /\ query.entity = "" /\ limit = 4
  /\ Matching("products") = 4
  /\ Matching("suppliers") = 0 /\ Matching("orders") = 0
  /\ Len(sres.suggestions) = 2

\* the four checks in the claimed order, each with whether the request
\* fails it and the messages it answers with; the limit is the number the
\* handler parsed
Checks ==
  LET l == LimitOf(query.limit)
  IN << [fails |-> Len(query.q) = 0, msgs |-> {MsgRequired}],
        [fails |-> Len(query.q) < 3, msgs |-> {MsgTooShort}],
        [fails |-> UnknownEntity, msgs |-> {MsgEntity}],
        [fails |-> l.isNaN \/ l.value < 1 \/ l.value > 20,
         msgs |-> {MsgPositive, MsgExceed}] >>

FailedChecks == {i \in DOMAIN Checks : Checks[i].fails}
FirstFailed == CHOOSE i \in FailedChecks : \A j \in FailedChecks : i <= j

\* C27: a request that fails any of the checks q present, q length,
\* entity, limit is answered 400 in the step it arrives in, with the
\* message of the first check it fails in that order, and no search is
\* issued for it; a request that fails none is not answered 400.
C27_FirstFailingCheck ==
  spc # "idle" =>
    IF FailedChecks = {} THEN sres.status # 400
    ELSE /\ Answered
         /\ sres.status = 400
         /\ sres.error \in Checks[FirstFailed].msgs
         /\ issued = {} /\ settled = << >> /\ failed = {}

\* a q of one character with an unknown entity and a limit that is no
\* number: three checks fail and the length is reported
C27_Witness ==
  /\ Answered /\ FailedChecks = {2, 3, 4}
  /\ Len(query.q) = 1 /\ query.limit = <<LA, LB>>
  /\ sres.status = 400 /\ sres.error = MsgTooShort

(* ------------------ the claims on the order transaction ----------------- *)
\* request r has issued the statement sql
Issued(r, sql) == \E i \in DOMAIN stmts[r] : stmts[r][i].sql = sql

\* C28: a request that has issued BEGIN TRANSACTION and has responded has,
\* as its last transaction statement, a COMMIT that succeeded or a
\* ROLLBACK; the connection is not inside a transaction that request
\* opened, and once every request has responded the connection is inside
\* no transaction at all.
C28_TransactionClosed ==
  /\ \A r \in Reqs :
       (pc[r] = "done" /\ Issued(r, "BEGIN")) =>
          LET last == stmts[r][Len(stmts[r])]
          IN /\ \/ last = [sql |-> "COMMIT", ok |-> TRUE]
                \/ last.sql = "ROLLBACK"
             /\ ~(txn.active /\ txn.by = r)
  /\ Quiescent => ~txn.active

\* one request committed; the other opened a transaction, had an INSERT
\* rejected and rolled back
C28_Witness ==
  \E r, q \in Reqs :
    /\ pc[r] = "done" /\ pc[q] = "done"
    /\ stmts[r] = <<[sql |-> "BEGIN", ok |-> TRUE],
                    [sql |-> "COMMIT", ok |-> TRUE]>>
    /\ stmts[q] = <<[sql |-> "BEGIN", ok |-> TRUE],
                    [sql |-> "ROLLBACK", ok |-> TRUE]>>
    /\ caught[q] = "INSERT INTO order_details failed"
    /\ ~txn.active

\* the rows request r wrote are in the tables and in no open transaction
Committed(r) ==
  /\ Complete(r)
  /\ txn.active =>
        /\ OrderRowsOf(r) \subseteq txn.orders
        /\ DetailRowsOf(r) \subseteq txn.order_details

\* C29: a request answered 201 has issued a COMMIT that succeeded, its
\* Order row and one OrderDetail row per item are committed, and the order
\* in the response body is the row that request inserted.
C29_CreatedOnlyAfterCommit ==
  \A r \in Reqs :
    res[r].status = 201 =>
      /\ \E i \in DOMAIN stmts[r] :
            stmts[r][i] = [sql |-> "COMMIT", ok |-> TRUE]
      /\ Committed(r)
      /\ \E o \in OrderRowsOf(r) : o.orderId = res[r].orderId

\* C30: when a request is answered 201, each detail of the body embeds the
\* product the request's validation loop resolved for that detail's
\* productId (same productId, the price the lookup saw), and the detail's
\* unitPrice is that product's price.
C30_EmbeddedProductMatches ==
  [][\A r \in Reqs :
        (res'[r].status = 201 /\ res[r].status # 201) =>
           \A i \in DOMAIN res'[r].details :
              LET d == res'[r].details[i]
              IN /\ d.product.productId = d.productId
                 /\ d.productId \in DOMAIN productMap[r]
                 /\ d.product = productMap[r][d.productId]
                 /\ d.product.price = SeenPrice(r, d.productId)
                 /\ d.unitPrice = d.product.price]_vars

====
